---- MODULE Spec2Model ----
(***************************************************************************)
(* Brand and printer handlers of the printer supplies API                  *)
(* (src/handlers/brand.rs, src/handlers/printer.rs).                       *)
(*                                                                         *)
(* Every handler is an async function: each `.await` on a storage call is  *)
(* a point where other requests' storage calls may run.  A handler is      *)
(* therefore modelled as one step per storage call, the in-process code    *)
(* that follows the call (validation, status mapping) being part of the    *)
(* step.  A storage call either succeeds or fails (sqlx::Error).           *)
(***************************************************************************)
EXTENDS Integers, Sequences, FiniteSets, TLC

\* ------------------------------------------------------------- bounds
\* Number of brand identifiers Brand::new can hand out in one run.
MaxIds == 2
\* Number of printer identifiers Printer::new can hand out in one run.
MaxPrinters == 1

\* Request slots handled concurrently by the server.
Procs == {"r1", "r2"}

\* ------------------------------------------------------ program constants
\* brand.rs: `name.len() < 4` and `name.len() > 20`
MinNameLen == 4
MaxNameLen == 20

\* ------------------------------------------------------------ strings
\* A string is a sequence of characters; str::len() counts UTF-8 bytes.
Rep(c, n) == [i \in 1..n |-> c]

\* "e_acute" stands for U+00E9, two bytes in UTF-8; the other characters are ASCII.
Utf8Width(c) == IF c = "e_acute" THEN 2 ELSE 1

RECURSIVE StrLen(_)
StrLen(s) == IF s = <<>> THEN 0 ELSE Utf8Width(Head(s)) + StrLen(Tail(s))

\* Request names: empty, too short, shortest valid, longest valid (made of
\* two-byte characters), too long.
NameInputs ==
    { <<>>,
      Rep("a", MinNameLen - 1),
      Rep("a", MinNameLen),
      Rep("e_acute", MaxNameLen \div 2),
      Rep("a", MaxNameLen + 1) }

BrandIds == 1..MaxIds

NoRequest == [op |-> "none", id |-> 0, name |-> <<>>]

VARIABLES
    brands,         \* table `brands`: a set of rows [id, name]
    pc,             \* pc[p]: the storage call request slot p is about to make
    req,            \* req[p]: the request slot p handles (or handled last)
    resp,           \* resp[p]: the status code of the request, "none" while in flight
    nextId,         \* identifiers handed out so far by Brand::new, plus one
    printers,       \* table `printers`: a set of rows
    preq,           \* the last create_printer / delete_printer request
    presp,          \* its outcome
    nextPrinterId   \* identifiers handed out so far by Printer::new, plus one

brandVars == <<brands, pc, req, resp, nextId>>
printerVars == <<printers, preq, presp, nextPrinterId>>
vars == <<brands, pc, req, resp, nextId,
          printers, preq, presp, nextPrinterId>>

\* ----------------------------------------------------- storage statements
\* Whether the `brands` table carries a uniqueness constraint on `name`.
NameUniqueInStorage == FALSE

\* Brand::new: a fresh identifier (Uuid::new_v4), never handed out before.
FreshId(n) == n

\* SELECT id FROM brands WHERE name = $1
SelectByName(rows, name) == { r \in rows : r.name = name }

\* SELECT id FROM brands WHERE id = $1
SelectById(rows, id) == { r \in rows : r.id = id }

\* Mutant: the duplicate SELECT of update_brand without `AND id != $2`.
SelectByNameExceptId_OwnIncluded(rows, name, id) ==
    { r \in rows : r.name = name }

\* SELECT id FROM brands WHERE name = $1 AND id != $2
SelectByNameExceptId(rows, name, id) ==
    { r \in rows : r.name = name /\ r.id # id }

\* INSERT INTO brands (id, name) VALUES ($1, $2)
InsertBrand(rows, id, name) == rows \cup { [id |-> id, name |-> name] }

\* Mutant: the UPDATE written as an upsert (it inserts the row when absent).
UpdateBrandName_Upsert(rows, id, name) ==
    { r \in rows : r.id # id } \cup { [id |-> id, name |-> name] }

\* UPDATE brands SET name = $1 WHERE id = $2   (zero rows affected is Ok)
UpdateBrandName(rows, id, name) ==
    { IF r.id = id THEN [id |-> id, name |-> name] ELSE r : r \in rows }

\* DELETE FROM brands WHERE id = $1            (zero rows affected is Ok)
DeleteBrandRow(rows, id) == { r \in rows : r.id # id }

\* A write is refused by the storage when it would break a constraint.
ConstraintAllows(rows, id, name) ==
    NameUniqueInStorage => SelectByNameExceptId(rows, name, id) = {}

\* ------------------------------------------------------- handler logic
\* Mutant: create_brand ignoring the result of the duplicate SELECT.
CreateCheckResult_NoDuplicate(found, name) ==
    IF StrLen(name) = 0 THEN "BAD_REQUEST"
    ELSE IF StrLen(name) < MinNameLen THEN "BAD_REQUEST"
    ELSE IF StrLen(name) > MaxNameLen THEN "BAD_REQUEST"
    ELSE "continue"

\* Mutant: create_brand without the "too long" check.
CreateCheckResult_NoLongCheck(found, name) ==
    IF found # {} THEN "CONFLICT"
    ELSE IF StrLen(name) = 0 THEN "BAD_REQUEST"
    ELSE IF StrLen(name) < MinNameLen THEN "BAD_REQUEST"
    ELSE "continue"

\* create_brand, after the duplicate SELECT returned `found`.
CreateCheckResult(found, name) ==
    IF found # {} THEN "CONFLICT"
    ELSE IF StrLen(name) = 0 THEN "BAD_REQUEST"
    ELSE IF StrLen(name) < MinNameLen THEN "BAD_REQUEST"
    ELSE IF StrLen(name) > MaxNameLen THEN "BAD_REQUEST"
    ELSE "continue"

\* Mutant: update_brand validating the name before looking at the id SELECT.
UpdateLookupResult_ValidateFirst(found, name) ==
    IF StrLen(name) = 0 THEN "BAD_REQUEST"
    ELSE IF StrLen(name) < MinNameLen THEN "BAD_REQUEST"
    ELSE IF StrLen(name) > MaxNameLen THEN "BAD_REQUEST"
    ELSE IF found = {} THEN "NOT_FOUND"
    ELSE "continue"

\* Mutant: update_brand with the "too short" check off by one.
UpdateLookupResult_ShortOffByOne(found, name) ==
    IF found = {} THEN "NOT_FOUND"
    ELSE IF StrLen(name) = 0 THEN "BAD_REQUEST"
    ELSE IF StrLen(name) < MinNameLen - 1 THEN "BAD_REQUEST"
    ELSE IF StrLen(name) > MaxNameLen THEN "BAD_REQUEST"
    ELSE "continue"

\* update_brand, after the id SELECT returned `found`.
UpdateLookupResult(found, name) ==
    IF found = {} THEN "NOT_FOUND"
    ELSE IF StrLen(name) = 0 THEN "BAD_REQUEST"
    ELSE IF StrLen(name) < MinNameLen THEN "BAD_REQUEST"
    ELSE IF StrLen(name) > MaxNameLen THEN "BAD_REQUEST"
    ELSE "continue"

\* update_brand, after the duplicate SELECT returned `found`.
UpdateDuplicateResult(found) ==
    IF found # {} THEN "BAD_REQUEST" ELSE "continue"

\* delete_brand, after the id SELECT returned `found`.
DeleteLookupResult(found) ==
    IF found = {} THEN "NOT_FOUND" ELSE "continue"

\* search_brand, after the id SELECT returned `found`.
SearchResult(found) ==
    IF found = {} THEN "NOT_FOUND" ELSE "OK"

\* ------------------------------------------------------------- actions
Finish(p, status) ==
    /\ pc' = [pc EXCEPT ![p] = "idle"]
    /\ resp' = [resp EXCEPT ![p] = status]

Goto(p, label) ==
    /\ pc' = [pc EXCEPT ![p] = label]
    /\ UNCHANGED resp

\* After a SELECT: finish with the status, or go on to the next storage call.
Branch(p, result, label) ==
    IF result = "continue" THEN Goto(p, label) ELSE Finish(p, result)

\* A request arrives at an idle slot.
Accept(p, r, label) ==
    /\ pc[p] = "idle"
    /\ req' = [req EXCEPT ![p] = r]
    /\ pc' = [pc EXCEPT ![p] = label]
    /\ resp' = [resp EXCEPT ![p] = "none"]

\* create_brand: the request is extracted and Brand::new draws the id.
CreateBrandStart(p) ==
    /\ nextId <= MaxIds
    /\ \E name \in NameInputs :
         Accept(p, [op |-> "create", id |-> FreshId(nextId), name |-> name],
                "create_check")
    /\ nextId' = nextId + 1
    /\ UNCHANGED <<brands, printerVars>>

\* create_brand: duplicate SELECT, then the name checks.
CreateBrandCheck(p) ==
    /\ pc[p] = "create_check"
    /\ \E ok \in BOOLEAN :
         IF ok
         THEN Branch(p, CreateCheckResult(SelectByName(brands, req[p].name),
                                          req[p].name), "create_insert")
         ELSE Finish(p, "INTERNAL_SERVER_ERROR")
    /\ UNCHANGED <<brands, req, nextId, printerVars>>

\* create_brand: INSERT.
CreateBrandInsert(p) ==
    /\ pc[p] = "create_insert"
    /\ \E ok \in BOOLEAN :
         IF ok /\ ConstraintAllows(brands, req[p].id, req[p].name)
         THEN /\ brands' = InsertBrand(brands, req[p].id, req[p].name)
              /\ Finish(p, "CREATED")
         ELSE /\ brands' = brands
              /\ Finish(p, "INTERNAL_SERVER_ERROR")
    /\ UNCHANGED <<req, nextId, printerVars>>

\* update_brand: the request is extracted.
UpdateBrandStart(p) ==
    /\ \E id \in BrandIds, name \in NameInputs :
         Accept(p, [op |-> "update", id |-> id, name |-> name], "update_lookup")
    /\ UNCHANGED <<brands, nextId, printerVars>>

\* update_brand: id SELECT, then the name checks.
UpdateBrandLookup(p) ==
    /\ pc[p] = "update_lookup"
    /\ \E ok \in BOOLEAN :
         IF ok
         THEN Branch(p, UpdateLookupResult(SelectById(brands, req[p].id),
                                           req[p].name), "update_duplicate")
         ELSE Finish(p, "INTERNAL_SERVER_ERROR")
    /\ UNCHANGED <<brands, req, nextId, printerVars>>

\* Mutant: update_brand issuing the UPDATE before it looks at the duplicates.
UpdateBrandDuplicate_WriteFirst(p) ==
    /\ pc[p] = "update_duplicate"
    /\ \E ok \in BOOLEAN :
         IF ok
         THEN /\ brands' = UpdateBrandName(brands, req[p].id, req[p].name)
              /\ Branch(p, UpdateDuplicateResult(
                            SelectByNameExceptId(brands, req[p].name, req[p].id)),
                        "update_exec")
         ELSE /\ brands' = brands
              /\ Finish(p, "INTERNAL_SERVER_ERROR")
    /\ UNCHANGED <<req, nextId, printerVars>>

\* update_brand: duplicate SELECT.
UpdateBrandDuplicate(p) ==
    /\ pc[p] = "update_duplicate"
    /\ \E ok \in BOOLEAN :
         IF ok
         THEN Branch(p, UpdateDuplicateResult(
                            SelectByNameExceptId(brands, req[p].name, req[p].id)),
                     "update_exec")
         ELSE Finish(p, "INTERNAL_SERVER_ERROR")
    /\ UNCHANGED <<brands, req, nextId, printerVars>>

\* update_brand: UPDATE.
UpdateBrandExec(p) ==
    /\ pc[p] = "update_exec"
    /\ \E ok \in BOOLEAN :
         IF ok /\ ConstraintAllows(brands, req[p].id, req[p].name)
         THEN /\ brands' = UpdateBrandName(brands, req[p].id, req[p].name)
              /\ Finish(p, "OK")
         ELSE /\ brands' = brands
              /\ Finish(p, "INTERNAL_SERVER_ERROR")
    /\ UNCHANGED <<req, nextId, printerVars>>

\* delete_brand: the request is extracted.
DeleteBrandStart(p) ==
    /\ \E id \in BrandIds :
         Accept(p, [op |-> "delete", id |-> id, name |-> <<>>], "delete_lookup")
    /\ UNCHANGED <<brands, nextId, printerVars>>

\* delete_brand: id SELECT.
DeleteBrandLookup(p) ==
    /\ pc[p] = "delete_lookup"
    /\ \E ok \in BOOLEAN :
         IF ok
         THEN Branch(p, DeleteLookupResult(SelectById(brands, req[p].id)),
                     "delete_exec")
         ELSE Finish(p, "INTERNAL_SERVER_ERROR")
    /\ UNCHANGED <<brands, req, nextId, printerVars>>

\* delete_brand: DELETE.
DeleteBrandExec(p) ==
    /\ pc[p] = "delete_exec"
    /\ \E ok \in BOOLEAN :
         IF ok
         THEN /\ brands' = DeleteBrandRow(brands, req[p].id)
              /\ Finish(p, "OK")
         ELSE /\ brands' = brands
              /\ Finish(p, "INTERNAL_SERVER_ERROR")
    /\ UNCHANGED <<req, nextId, printerVars>>

\* search_brand: the id is extracted from the path.
SearchBrandStart(p) ==
    /\ \E id \in BrandIds :
         Accept(p, [op |-> "search", id |-> id, name |-> <<>>], "search_select")
    /\ UNCHANGED <<brands, nextId, printerVars>>

\* search_brand: id SELECT.
SearchBrandSelect(p) ==
    /\ pc[p] = "search_select"
    /\ \E ok \in BOOLEAN :
         IF ok
         THEN Finish(p, SearchResult(SelectById(brands, req[p].id)))
         ELSE Finish(p, "INTERNAL_SERVER_ERROR")
    /\ UNCHANGED <<brands, req, nextId, printerVars>>

\* ------------------------------------------------------------ printers
\* Uuid::from_str reads the simple form (32 hex digits), the hyphenated form
\* (8-4-4-4-12), the braced form ({hyphenated}) and the URN form
\* (urn:uuid:hyphenated); hex digits are read in either case.
HexDigits == {"0", "1", "9", "a", "b", "f"}
UpperHexDigits == {"A", "B", "F"}

Lower(c) ==
    CASE c = "A" -> "a"
      [] c = "B" -> "b"
      [] c = "F" -> "f"
      [] OTHER -> c

IsHex(c) == c \in HexDigits \cup UpperHexDigits

HyphenAt == {9, 14, 19, 24}

IsSimple(s) == Len(s) = 32 /\ \A i \in 1..32 : IsHex(s[i])

IsHyphenated(s) ==
    /\ Len(s) = 36
    /\ \A i \in 1..36 : IF i \in HyphenAt THEN s[i] = "-" ELSE IsHex(s[i])

IsBraced(s) ==
    /\ Len(s) = 38
    /\ s[1] = "{"
    /\ s[38] = "}"
    /\ IsHyphenated(SubSeq(s, 2, 37))

UrnPrefix == <<"u", "r", "n", ":", "u", "u", "i", "d", ":">>

IsUrn(s) ==
    /\ Len(s) = 45
    /\ SubSeq(s, 1, 9) = UrnPrefix
    /\ IsHyphenated(SubSeq(s, 10, 45))

\* The 32 hex digits of a well-formed identifier, in lower case.
Digits(s) == LET d == SelectSeq(s, IsHex) IN [i \in 1..Len(d) |-> Lower(d[i])]

\* Uuid::from_str(s): Ok(uuid) or Err.
ParseUuid(s) ==
    IF IsSimple(s) \/ IsHyphenated(s) \/ IsBraced(s)
    THEN [ok |-> TRUE, uuid |-> Digits(s)]
    ELSE IF IsUrn(s)
    THEN [ok |-> TRUE, uuid |-> Digits(SubSeq(s, 10, 45))]
    ELSE [ok |-> FALSE, uuid |-> <<>>]

Hyphenated(c) ==
    Rep(c, 8) \o <<"-">> \o Rep(c, 4) \o <<"-">> \o Rep(c, 4) \o <<"-">>
        \o Rep(c, 4) \o <<"-">> \o Rep(c, 12)

\* Reference fields of create_printer requests: three well-formed ones (the
\* first two name the same identifier) and three that are not identifiers.
RefInputs ==
    { Hyphenated("a"),
      Rep("A", 32),
      <<"{">> \o Hyphenated("b") \o <<"}">>,
      <<>>,
      Rep("a", 8) \o <<"-">> \o Rep("a", 27),
      Rep("g", 32) }

PrinterIds == 1..MaxPrinters

\* Printer::new: a fresh identifier, never handed out before.
FreshPrinterId(n) == n

\* Uuid::from_str on each request string, tabulated.
Parsed == [s \in RefInputs |-> ParseUuid(s)]

\* The three `Uuid::from_str(..).unwrap()` arguments of Printer::new.
ParsedRefs(r) ==
    [brand |-> Parsed[r.brand], toner |-> Parsed[r.toner],
     drum |-> Parsed[r.drum]]

\* Mutant: only the brand field is unwrapped.
UnwrapPanics_BrandOnly(refs) == ~refs.brand.ok

\* Whether evaluating the arguments of Printer::new panics.
UnwrapPanics(refs) == ~refs.brand.ok \/ ~refs.toner.ok \/ ~refs.drum.ok

\* INSERT INTO printers (id, name, model, brand, toner, drum) VALUES (...)
InsertPrinter(rows, id, r, refs) ==
    rows \cup { [id |-> id, name |-> r.name, model |-> r.model,
                 brand |-> refs.brand.uuid, toner |-> refs.toner.uuid,
                 drum |-> refs.drum.uuid] }

\* DELETE FROM printers WHERE id = $1
DeletePrinterRow(rows, id) == { r \in rows : r.id # id }

\* create_printer.
CreatePrinter ==
    /\ \E brand \in RefInputs, toner \in RefInputs, drum \in RefInputs :
         LET r == [op |-> "create", name |-> "LaserJet", model |-> "P1102",
                   brand |-> brand, toner |-> toner, drum |-> drum, id |-> 0]
             refs == ParsedRefs(r)
         IN  /\ preq' = r
             /\ IF UnwrapPanics(refs)
                THEN /\ presp' = "panic"
                     /\ UNCHANGED <<printers, nextPrinterId>>
                ELSE /\ nextPrinterId <= MaxPrinters
                     /\ nextPrinterId' = nextPrinterId + 1
                     /\ \E ok \in BOOLEAN :
                          IF ok
                          THEN /\ printers' = InsertPrinter(printers,
                                      FreshPrinterId(nextPrinterId), r, refs)
                               /\ presp' = "CREATED"
                          ELSE /\ printers' = printers
                               /\ presp' = "INTERNAL_SERVER_ERROR"
    /\ UNCHANGED brandVars

\* delete_printer.
DeletePrinter ==
    /\ \E id \in PrinterIds :
         /\ preq' = [op |-> "delete", name |-> "", model |-> "",
                     brand |-> <<>>, toner |-> <<>>, drum |-> <<>>, id |-> id]
         /\ \E ok \in BOOLEAN :
              IF ok
              THEN /\ printers' = DeletePrinterRow(printers, id)
                   /\ presp' = "OK"
              ELSE /\ printers' = printers
                   /\ presp' = "INTERNAL_SERVER_ERROR"
    /\ UNCHANGED <<nextPrinterId, brandVars>>

NoPrinterRequest ==
    [op |-> "none", name |-> "", model |-> "",
     brand |-> <<>>, toner |-> <<>>, drum |-> <<>>, id |-> 0]

Init ==
    /\ brands = {}
    /\ pc = [p \in Procs |-> "idle"]
    /\ req = [p \in Procs |-> NoRequest]
    /\ resp = [p \in Procs |-> "none"]
    /\ nextId = 1
    /\ printers = {}
    /\ preq = NoPrinterRequest
    /\ presp = "none"
    /\ nextPrinterId = 1

Next ==
    \E p \in Procs :
        \/ CreateBrandStart(p)
        \/ CreateBrandCheck(p)
        \/ CreateBrandInsert(p)
        \/ UpdateBrandStart(p)
        \/ UpdateBrandLookup(p)
        \/ UpdateBrandDuplicate(p)
        \/ UpdateBrandExec(p)
        \/ DeleteBrandStart(p)
        \/ DeleteBrandLookup(p)
        \/ DeleteBrandExec(p)
        \/ SearchBrandStart(p)
        \/ SearchBrandSelect(p)

\* Brand requests handled concurrently.
Spec == Init /\ [][Next]_vars

AllIdle == \A q \in Procs : pc[q] = "idle"

\* Brand requests handled one after another: a request is accepted only when
\* no other request is in flight.
SeqNext ==
    \E p \in Procs :
        \/ AllIdle /\ CreateBrandStart(p)
        \/ CreateBrandCheck(p)
        \/ CreateBrandInsert(p)
        \/ AllIdle /\ UpdateBrandStart(p)
        \/ UpdateBrandLookup(p)
        \/ UpdateBrandDuplicate(p)
        \/ UpdateBrandExec(p)
        \/ AllIdle /\ DeleteBrandStart(p)
        \/ DeleteBrandLookup(p)
        \/ DeleteBrandExec(p)
        \/ AllIdle /\ SearchBrandStart(p)
        \/ SearchBrandSelect(p)

SeqSpec == Init /\ [][SeqNext]_vars

\* Printer requests.
PrinterNext == CreatePrinter \/ DeletePrinter

PrinterSpec == Init /\ [][PrinterNext]_vars

\* ------------------------------------------------------------ properties
\* Slot p makes the storage call `label` in this step.
Stepped(p, label) == pc[p] = label /\ pc'[p] # label

\* Slot p's request ends in this step, having been in flight.
Completes(p) == pc[p] # "idle" /\ pc'[p] = "idle"

ValidLen(name) == MinNameLen <= StrLen(name) /\ StrLen(name) <= MaxNameLen

Stored(id) == \E r \in brands : r.id = id

NameUsed(name) == \E r \in brands : r.name = name

NameUsedByOther(name, id) == \E r \in brands : r.name = name /\ r.id # id

\* C1: no two stored brands have the same name, in every reachable state,
\* interleavings of concurrent create_brand and update_brand included.
C1_UniqueNames ==
    \A r1 \in brands, r2 \in brands : r1.name = r2.name => r1.id = r2.id

\* C2: requests running one after another, a create_brand with a valid name
\* that ends without a storage failure returns 201 and adds exactly one brand
\* with that name when no brand has the name, and returns 409 and adds
\* nothing when a brand has it (the second create of the same name).
C2_CreateOnceThenConflict ==
    [][\A p \in Procs :
         ( /\ req[p].op = "create"
           /\ Completes(p)
           /\ resp'[p] # "INTERNAL_SERVER_ERROR"
           /\ ValidLen(req[p].name) )
         => IF NameUsed(req[p].name)
            THEN resp'[p] = "CONFLICT" /\ brands' = brands
            ELSE /\ resp'[p] = "CREATED"
                 /\ brands \subseteq brands'
                 /\ Cardinality(brands' \ brands) = 1
                 /\ \A r \in brands' \ brands : r.name = req[p].name]_vars

C2_Witness ==
    \E p \in Procs, q \in Procs :
        /\ req[p].op = "create" /\ resp[p] = "CREATED"
        /\ req[q].op = "create" /\ resp[q] = "CONFLICT"
        /\ req[q].name = req[p].name
        /\ req[p].id < req[q].id
        /\ [id |-> req[p].id, name |-> req[p].name] \in brands

\* C3: a create_brand whose name has length 0, 1..3 or 21 and more returns
\* 400 whenever its duplicate SELECT does not fail: it never goes on to the
\* INSERT and never answers 409.
C3_InvalidNameIsBadRequest ==
    [][\A p \in Procs :
         ( /\ Stepped(p, "create_check")
           /\ ~ValidLen(req[p].name)
           /\ resp'[p] # "INTERNAL_SERVER_ERROR" )
         => pc'[p] = "idle" /\ resp'[p] = "BAD_REQUEST"]_vars

C3_Witness ==
    \E p \in Procs :
        /\ req[p].op = "create" /\ resp[p] = "BAD_REQUEST"
        /\ StrLen(req[p].name) > MaxNameLen
        /\ brands # {}

\* C4: requests running one after another, an update_brand on a stored id
\* with a valid name that ends without a storage failure returns 400 and
\* changes nothing when another id has the name, and returns 200 when the
\* name is the brand's own or unused.
C4_UpdateDuplicate ==
    [][\A p \in Procs :
         ( /\ req[p].op = "update"
           /\ Completes(p)
           /\ resp'[p] # "INTERNAL_SERVER_ERROR"
           /\ ValidLen(req[p].name)
           /\ Stored(req[p].id) )
         => IF NameUsedByOther(req[p].name, req[p].id)
            THEN resp'[p] = "BAD_REQUEST" /\ brands' = brands
            ELSE resp'[p] = "OK"]_vars

C4_Witness ==
    \E p \in Procs, q \in Procs :
        /\ req[p].op = "update" /\ resp[p] = "BAD_REQUEST"
        /\ ValidLen(req[p].name)
        /\ Stored(req[p].id)
        /\ NameUsedByOther(req[p].name, req[p].id)
        /\ req[q].op = "update" /\ resp[q] = "OK"
        /\ [id |-> req[q].id, name |-> req[q].name] \in brands

\* C5: an update_brand or delete_brand whose id SELECT finds no row and does
\* not fail returns 404, whatever the requested name.
C5_MissingIdIsNotFound ==
    [][\A p \in Procs :
         ( /\ Stepped(p, "update_lookup") \/ Stepped(p, "delete_lookup")
           /\ ~Stored(req[p].id)
           /\ resp'[p] # "INTERNAL_SERVER_ERROR" )
         => pc'[p] = "idle" /\ resp'[p] = "NOT_FOUND"]_vars

C5_Witness ==
    \E p \in Procs, q \in Procs :
        /\ req[p].op = "update" /\ resp[p] = "NOT_FOUND"
        /\ ~ValidLen(req[p].name)
        /\ req[q].op = "delete" /\ resp[q] = "NOT_FOUND"

\* An id that was handed out, is in no row and in no create_brand in flight.
Gone(id) ==
    /\ id < nextId
    /\ ~Stored(id)
    /\ \A q \in Procs : ~(req[q].op = "create" /\ req[q].id = id /\ pc[q] # "idle")

\* C6: when delete_brand's DELETE returns 200 the brand is gone; a brand
\* that is gone stays gone whatever requests are handled; and a search_brand
\* on a gone id returns 404 unless its SELECT fails.
C6_DeletedStaysDeleted ==
    [][ /\ \A p \in Procs :
             Stepped(p, "delete_exec") /\ resp'[p] = "OK" => Gone(req[p].id)'
        /\ \A id \in BrandIds : Gone(id) => Gone(id)'
        /\ \A p \in Procs :
             Stepped(p, "search_select") /\ Gone(req[p].id)
             => resp'[p] \in {"NOT_FOUND", "INTERNAL_SERVER_ERROR"} ]_vars

C6_Witness ==
    \E p \in Procs, q \in Procs :
        /\ req[p].op = "delete" /\ resp[p] = "OK"
        /\ req[q].op = "search" /\ resp[q] = "NOT_FOUND"
        /\ req[q].id = req[p].id
        /\ Gone(req[p].id)

\* C7: every stored brand has a name whose len() is between 4 and 20.
C7_StoredNamesValid == \A r \in brands : ValidLen(r.name)

C7_Witness ==
    /\ \E r \in brands : StrLen(r.name) = MinNameLen
    /\ \E r \in brands : StrLen(r.name) = MaxNameLen

\* The request strings that are identifiers, and those that are not.
WellFormedRefs ==
    { Hyphenated("a"), Rep("A", 32), <<"{">> \o Hyphenated("b") \o <<"}">> }

MalformedRefs ==
    { <<>>, Rep("a", 8) \o <<"-">> \o Rep("a", 27), Rep("g", 32) }

\* C8: a create_printer with a brand, toner or drum that is no identifier
\* ends in a panic and leaves the printer table as it was; with three
\* identifiers it returns 201, having inserted the printer, or 500, having
\* inserted nothing.
C8_CreatePrinterPanics ==
    [][preq'.op = "create" =>
         IF \E s \in {preq'.brand, preq'.toner, preq'.drum} : s \in MalformedRefs
         THEN presp' = "panic" /\ printers' = printers
         ELSE /\ {preq'.brand, preq'.toner, preq'.drum} \subseteq WellFormedRefs
              /\ presp' \in {"CREATED", "INTERNAL_SERVER_ERROR"}
              /\ presp' = "CREATED" =>
                    printers \subseteq printers' /\ Cardinality(printers' \ printers) = 1
              /\ presp' = "INTERNAL_SERVER_ERROR" => printers' = printers]_vars

C8_Witness ==
    /\ preq.op = "create"
    /\ presp = "panic"
    /\ preq.brand \in WellFormedRefs
    /\ preq.drum \in MalformedRefs
    /\ printers # {}

\* C9: a step that ends a request with 400, 404 or 409 leaves the brand
\* table as it was, and a step that changes the brand table ends the request
\* that made it with 200 or 201: a request answered 400, 404 or 409 has made
\* no step that changed the table.
C9_ErrorResponsesWriteNothing ==
    [][\A p \in Procs :
         pc'[p] # pc[p] =>
           /\ resp'[p] \in {"BAD_REQUEST", "NOT_FOUND", "CONFLICT"} => brands' = brands
           /\ brands' # brands => pc'[p] = "idle" /\ resp'[p] \in {"OK", "CREATED"}]_vars

C9_Witness ==
    \E p \in Procs, q \in Procs :
        /\ req[p].op = "create" /\ resp[p] = "CONFLICT"
        /\ req[q].op = "update" /\ resp[q] = "BAD_REQUEST"
        /\ Stored(req[q].id)

\* C10: whenever update_brand's UPDATE returns 200, the brand table right
\* after it holds the requested id with the requested name, also when a
\* delete_brand of the same id interleaves.
C10_UpdateOkMeansUpdated ==
    [][\A p \in Procs :
         Stepped(p, "update_exec") /\ resp'[p] = "OK"
         => [id |-> req[p].id, name |-> req[p].name] \in brands']_vars

====
